---- MODULE Spec2Model ----
(***************************************************************************)
(* Client/server synchronisation layer of the Connect chat application.    *)
(*                                                                         *)
(* One browser client (ApiService, src/services/api.ts) issues calls; each *)
(* call is an async function whose only suspension points are the awaits   *)
(* inside ApiService.request.  The Express handlers of the backend run     *)
(* step by step, one step per awaited document-store operation, so that    *)
(* handlers of concurrent HTTP requests interleave.                        *)
(***************************************************************************)
EXTENDS Integers, Sequences, FiniteSets, TLC

(***************************************************************************)
(* TLC keeps the fields of a record in the order in which their names      *)
(* first occur in the module.  Every record of the model is written with   *)
(* its fields in alphabetical order; this definition makes that the order  *)
(* of first occurrence too.                                                *)
(***************************************************************************)
FieldOrder ==
    [adminId |-> 0, arg |-> 0, audioUrl |-> 0, body |-> 0, code |-> 0, email |-> 0,
     fileUrl |-> 0, groupId |-> 0, groups |-> 0, groupsDeleted |-> 0, id |-> 0, imageUrl |-> 0,
     isAdmin |-> 0, isBanned |-> 0, kind |-> 0, local |-> 0, memberIds |-> 0, message |-> 0,
     messageId |-> 0, messages |-> 0, messagesDeleted |-> 0, mockUsers |-> 0, name |-> 0,
     op |-> 0, pc |-> 0, receiverId |-> 0, resp |-> 0, ret |-> 0, senderId |-> 0,
     status |-> 0, store |-> 0, tempMsgs |-> 0, text |-> 0, timestamp |-> 0, type |-> 0,
     u1 |-> 0, u2 |-> 0, user |-> 0, userId |-> 0, username |-> 0, users |-> 0,
     usersDeleted |-> 0, val |-> 0]

(***************************************************************************)
(* Bounds of the model.                                                    *)
(***************************************************************************)
MaxCalls == 2
MaxIssued == 2
MaxTs == 1
MaxListTs == 2
MaxLocal == 501

Calls == 1..MaxCalls

(***************************************************************************)
(* Values.                                                                 *)
(***************************************************************************)
NoId == <<>>
LocalIds == {<<"u", 1>>, <<"u", 2>>}
Oid(n) == <<"oid", n>>
Emails == {"ana@x.com", "bob@x.com"}
AdminEmail == "admin0909@gmail.com"
Usernames == {"Al", "Ana"}
BaseUrls == {"LOCAL_MOCK", "http"}
MinUsernameLen == 3
MinMembers == 2
HistoryLimit == 500
MaxRetries == 5
RetryDelay == 10000
U1 == Oid(1)
U2 == Oid(2)
U3 == Oid(3)
M1 == Oid(4)
G1 == Oid(5)
M2 == Oid(6)
UserIds == {U1, U2}
Timestamps == 1..MaxTs
MsgTypes == {"text", "image", "audio", "file"}

\* the Message objects handed to sendMessage: direct text messages between the
\* two users, in both directions, and one text message whose text is empty
Msg(s, r, t, txt) ==
    [audioUrl |-> "", fileUrl |-> "", groupId |-> NoId, imageUrl |-> "", receiverId |-> r,
     senderId |-> s, status |-> "sent", text |-> txt, timestamp |-> t, type |-> "text"]

TextInputs == {Msg(U1, U2, t, "hi") : t \in Timestamps} \cup {Msg(U2, U1, 1, "hi")}

\* an image sent with a caption, as handleSendMessage(text, imageUrl) builds it
CaptionedImage == [Msg(U1, U2, 1, "hi") EXCEPT !.imageUrl = "pic", !.type = "image"]

SendInputs == TextInputs \cup {Msg(U1, U2, 1, ""), CaptionedImage}

VARIABLES
    baseUrl,
    isConnected,
    connectionAttempted,
    call,
    srv,
    mockUsers,
    tempMsgs,
    users,
    messages,
    groups,
    nextOid,
    issued,
    remoteUp,
    connectPc,
    attempts,
    slept,
    selected,
    displayed

vars == <<baseUrl, isConnected, connectionAttempted, call, srv,
          mockUsers, tempMsgs, users, messages, groups, nextOid, issued, remoteUp,
          connectPc, attempts, slept, selected, displayed>>

clientVars == <<baseUrl, isConnected, connectionAttempted, call, mockUsers, tempMsgs, issued>>
storeVars == <<users, messages, groups, nextOid>>
envVars == <<remoteUp>>

\* DatabaseConnection.connect: where it stands, its failed attempts, the time it slept
dbVars == <<connectPc, attempts, slept>>

\* App: the open conversation and the displayed message list
uiVars == <<selected, displayed>>

\* what no step of the adapter or of a request handler writes
restVars == <<envVars, dbVars, uiVars>>

(***************************************************************************)
(* Helpers on sequences.                                                   *)
(***************************************************************************)
Range(s) == {s[i] : i \in DOMAIN s}

Min(S) == CHOOSE x \in S : \A y \in S : x <= y

Take(s, n) == IF Len(s) <= n THEN s ELSE SubSeq(s, 1, n)

\* the documents of S in ascending timestamp order; documents with equal
\* timestamps come in insertion (_id) order
Before(d, e) == d.timestamp < e.timestamp \/ (d.timestamp = e.timestamp /\ d.id[2] < e.id[2])

SortByTimestamp(S) ==
    LET placed == {<<Cardinality({e \in S : Before(e, d)}) + 1, d>> : d \in S}
    IN  [i \in 1..Cardinality(S) |-> (CHOOSE p \in placed : p[1] = i)[2]]

(***************************************************************************)
(* Results of ApiService.request and of the public operations.             *)
(***************************************************************************)
NoResp == [kind |-> "none", val |-> <<>>]
NullResp == [kind |-> "null", val |-> <<>>]
ThrowResp == [kind |-> "throw", val |-> <<>>]
BodyResp(b) == [kind |-> "body", val |-> b]

IdleCall == [arg |-> <<>>, body |-> <<>>, op |-> "none", pc |-> "idle",
             resp |-> NoResp, ret |-> NoResp, status |-> 0]
IdleSrv == [body |-> <<>>, local |-> <<>>, pc |-> "none", status |-> 0]

IsOk(status) == status >= 200 /\ status <= 299

(***************************************************************************)
(* registerUser, after `await this.request(...)`.                          *)
(***************************************************************************)
\* localUsers.find(u => u.email === localUser.email): index of the first match, 0 if none
FindLocalByEmail(localUsers, email) ==
    LET I == {i \in DOMAIN localUsers : localUsers[i].email = email}
    IN  IF I = {} THEN 0 ELSE Min(I)

\* the local branch without its save; and without its lookup
LocalRegisterNoSave(localUsers, localUser) ==
    LET i == FindLocalByEmail(localUsers, localUser.email)
    IN  IF i = 0
        THEN [store |-> localUsers, user |-> localUser]
        ELSE [store |-> localUsers, user |-> localUsers[i]]

LocalRegisterNoFind(localUsers, localUser) ==
    [store |-> Append(localUsers, localUser), user |-> localUser]

\* the local fallback branch of registerUser: reuse the record with this email or push the new one
LocalRegister(localUsers, localUser) ==
    LET i == FindLocalByEmail(localUsers, localUser.email)
    IN  IF i = 0
        THEN [store |-> Append(localUsers, localUser), user |-> localUser]
        ELSE [store |-> localUsers, user |-> localUsers[i]]

\* the id is minted by Math.random before the local store is looked at
RegisterUserCont(arg, resp, minted) ==
    IF resp.kind = "throw"
    THEN [mockUsers |-> mockUsers, ret |-> ThrowResp, tempMsgs |-> tempMsgs]
    ELSE IF resp.kind = "null"
    THEN LET localUser == [email |-> arg.email, id |-> minted]
             r == LocalRegister(mockUsers, localUser)
         IN  [mockUsers |-> r.store, ret |-> BodyResp(r.user), tempMsgs |-> tempMsgs]
    ELSE [mockUsers |-> mockUsers, ret |-> resp, tempMsgs |-> tempMsgs]

(***************************************************************************)
(* sendMessage and getMessages, after `await this.request(...)`.           *)
(***************************************************************************)
TrueRet == BodyResp(TRUE)
FalseRet == BodyResp(FALSE)

\* sendMessage has no try/catch; a null result appends to connect_temp_msgs
\* a fallback that writes back the list as it was before any call returned
SendMessageContStale(arg, resp) ==
    IF resp.kind = "throw"
    THEN [mockUsers |-> mockUsers, ret |-> ThrowResp, tempMsgs |-> tempMsgs]
    ELSE IF resp.kind = "null"
    THEN [mockUsers |-> mockUsers, ret |-> TrueRet, tempMsgs |-> <<arg>>]
    ELSE [mockUsers |-> mockUsers, ret |-> TrueRet, tempMsgs |-> tempMsgs]

SendMessageCont(arg, resp) ==
    IF resp.kind = "throw"
    THEN [mockUsers |-> mockUsers, ret |-> ThrowResp, tempMsgs |-> tempMsgs]
    ELSE IF resp.kind = "null"
    THEN [mockUsers |-> mockUsers, ret |-> TrueRet, tempMsgs |-> Append(tempMsgs, arg)]
    ELSE [mockUsers |-> mockUsers, ret |-> TrueRet, tempMsgs |-> tempMsgs]

\* a filter that keeps one direction only
LocalFilterOneWay(local, user1Id, user2Id) ==
    SelectSeq(local, LAMBDA m : m.senderId = user2Id /\ m.receiverId = user1Id)

\* local.filter(...) of getMessages: both directions, array order kept
LocalFilter(local, user1Id, user2Id) ==
    SelectSeq(local, LAMBDA m : \/ (m.senderId = user1Id /\ m.receiverId = user2Id)
                               \/ (m.senderId = user2Id /\ m.receiverId = user1Id))

GetMessagesCont(arg, resp) ==
    IF resp.kind = "throw"
    THEN [mockUsers |-> mockUsers, ret |-> ThrowResp, tempMsgs |-> tempMsgs]
    ELSE IF resp.kind = "null"
    THEN [mockUsers |-> mockUsers,
          ret |-> BodyResp(LocalFilter(tempMsgs, arg.u1, arg.u2)),
          tempMsgs |-> tempMsgs]
    ELSE [mockUsers |-> mockUsers, ret |-> resp, tempMsgs |-> tempMsgs]

(***************************************************************************)
(* The operations written as try { await this.request(...); return true }  *)
(* catch { return false }.                                                 *)
(***************************************************************************)
BoolOps == {"banUser", "deleteUser", "addMemberToGroup", "removeMemberFromGroup",
            "deleteGroup", "editMessage", "deleteMessage"}

BoolOpResult(resp) == IF resp.kind = "throw" THEN FalseRet ELSE TrueRet

BoolOpCont(arg, resp) ==
    [mockUsers |-> mockUsers, ret |-> BoolOpResult(resp), tempMsgs |-> tempMsgs]

(***************************************************************************)
(* The operations that hand on what request returned.                      *)
(***************************************************************************)
NullRet == NullResp
EmptyRet == BodyResp(<<>>)

\* createGroup, cleanupTestData: try { return await this.request(...) } catch { return null }
NullOps == {"createGroup", "cleanupTestData"}

NullOpCont(arg, resp) ==
    [mockUsers |-> mockUsers,
     ret |-> IF resp.kind = "throw" THEN NullRet ELSE resp,
     tempMsgs |-> tempMsgs]

\* getUserGroups, getGroupMessages: try { return await this.request(...) } catch { return [] }
ListOps == {"getUserGroups", "getGroupMessages"}

ListOpCont(arg, resp) ==
    [mockUsers |-> mockUsers,
     ret |-> IF resp.kind = "throw" THEN EmptyRet ELSE resp,
     tempMsgs |-> tempMsgs]

\* getAllGroupsForAdmin: try { return (await this.request(...)) || [] } catch { return [] }
GetAllGroupsForAdminCont(arg, resp) ==
    [mockUsers |-> mockUsers,
     ret |-> IF resp.kind \in {"throw", "null"} THEN EmptyRet ELSE resp,
     tempMsgs |-> tempMsgs]

(***************************************************************************)
(* The public operation resumes when request has returned: its result and  *)
(* its writes to localStorage.  No suspension point lies between the       *)
(* return of request and the end of the operation.                         *)
(***************************************************************************)
Cont(op, arg, resp, minted) ==
    CASE op = "registerUser" -> RegisterUserCont(arg, resp, minted)
      [] op = "sendMessage" -> SendMessageCont(arg, resp)
      [] op = "getMessages" -> GetMessagesCont(arg, resp)
      [] op \in BoolOps -> BoolOpCont(arg, resp)
      [] op \in NullOps -> NullOpCont(arg, resp)
      [] op \in ListOps -> ListOpCont(arg, resp)
      [] op = "getAllGroupsForAdmin" -> GetAllGroupsForAdminCont(arg, resp)

Complete(c, op, arg, resp) ==
    \E minted \in (IF op = "registerUser" /\ resp.kind = "null" THEN LocalIds ELSE {NoId}) :
        LET r == Cont(op, arg, resp, minted)
        IN  /\ call' = [call EXCEPT ![c] =
                          [arg |-> arg, body |-> <<>>, op |-> op, pc |-> "done",
                           resp |-> resp, ret |-> r.ret, status |-> call[c].status]]
            /\ mockUsers' = r.mockUsers
            /\ tempMsgs' = r.tempMsgs

(***************************************************************************)
(* ApiService.request: entry.  In LOCAL_MOCK mode the adapter returns the  *)
(* null sentinel at once; otherwise it starts the fetch.                   *)
(***************************************************************************)
StartCall(c, op, arg) ==
    /\ call[c].pc = "idle"
    /\ srv[c].pc = "none"
    /\ IF baseUrl = "LOCAL_MOCK"
       THEN Complete(c, op, arg, NullResp)
       ELSE /\ call' = [call EXCEPT ![c] = [IdleCall EXCEPT !.op = op, !.arg = arg, !.pc = "fetch"]]
            /\ UNCHANGED <<mockUsers, tempMsgs>>
    /\ UNCHANGED <<baseUrl, isConnected, connectionAttempted, srv>>
    /\ UNCHANGED <<storeVars, envVars, dbVars>>

\* a call made by anything but the chat window, whose state it leaves alone
Start(c, op, arg) ==
    /\ StartCall(c, op, arg)
    /\ UNCHANGED uiVars

\* a call made by the user; a run of the model makes at most MaxIssued of them
Request(c, op, arg) ==
    /\ issued < MaxIssued
    /\ issued' = issued + 1
    /\ Start(c, op, arg)

\* a call made by a tick of the poll loop, which never stops ticking
PollRequest(c, op, arg) ==
    /\ UNCHANGED issued
    /\ Start(c, op, arg)

(***************************************************************************)
(* The catch block of request: connectivity goes down, sentinel returned.  *)
(***************************************************************************)
CatchResult == NullResp

Caught(c) ==
    /\ Complete(c, call[c].op, call[c].arg, CatchResult)
    /\ isConnected' = FALSE
    /\ connectionAttempted' = TRUE

(***************************************************************************)
(* fetch rejects while the backend is unavailable: network error, or the   *)
(* 3 s timer aborted the request.  The server may or may not have seen (or *)
(* finished) the request; a response that was on its way is dropped.       *)
(***************************************************************************)
FetchReject(c) ==
    /\ ~remoteUp
    /\ call[c].pc = "fetch"
    /\ Caught(c)
    /\ srv' = [srv EXCEPT ![c] = IF srv[c].pc = "done" THEN IdleSrv ELSE srv[c]]
    /\ UNCHANGED <<baseUrl, issued>>
    /\ UNCHANGED <<storeVars, restVars>>

(***************************************************************************)
(* fetch resolves with the response headers.  A non-2xx response goes on   *)
(* to read the error text; a 2xx response marks the remote reachable and   *)
(* goes on to read the JSON body.                                          *)
(***************************************************************************)
FetchResolve(c) ==
    /\ call[c].pc = "fetch"
    /\ srv[c].pc = "done"
    /\ IF IsOk(srv[c].status)
       THEN /\ call' = [call EXCEPT ![c].pc = "json", ![c].status = srv[c].status,
                                    ![c].body = srv[c].body]
            /\ isConnected' = TRUE
            /\ connectionAttempted' = TRUE
       ELSE /\ call' = [call EXCEPT ![c].pc = "text", ![c].status = srv[c].status]
            /\ UNCHANGED <<isConnected, connectionAttempted>>
    /\ srv' = [srv EXCEPT ![c] = IdleSrv]
    /\ UNCHANGED <<baseUrl, mockUsers, tempMsgs, issued>>
    /\ UNCHANGED <<storeVars, restVars>>

(***************************************************************************)
(* Non-2xx: response.text() settles (either way) and the error is thrown   *)
(* into the catch block.                                                   *)
(***************************************************************************)
ReadText(c) ==
    /\ call[c].pc = "text"
    /\ Caught(c)
    /\ UNCHANGED <<baseUrl, srv, issued>>
    /\ UNCHANGED <<storeVars, restVars>>

(***************************************************************************)
(* 2xx: `return await response.json()` inside the try block.  A body that  *)
(* does not parse rejects inside the try and is caught.                    *)
(***************************************************************************)
\* `return response.json()` without the await: the rejection escapes the try
JsonResultNoAwait(parsed, body) == IF parsed THEN BodyResp(body) ELSE ThrowResp

JsonResult(parsed, body) == IF parsed THEN BodyResp(body) ELSE CatchResult

ReadJson(c, parsed) ==
    /\ call[c].pc = "json"
    /\ LET r == JsonResult(parsed, call[c].body)
       IN  IF r = CatchResult
           THEN Caught(c)
           ELSE /\ Complete(c, call[c].op, call[c].arg, r)
                /\ UNCHANGED <<isConnected, connectionAttempted>>
    /\ UNCHANGED <<baseUrl, srv, issued>>
    /\ UNCHANGED <<storeVars, restVars>>

(***************************************************************************)
(* A finished call leaves its slot; the slot can carry the next call once  *)
(* the server has finished with the previous one.  Only the poll loop,     *)
(* which makes calls without end, needs its slots again.                   *)
(***************************************************************************)
Reset(c) ==
    /\ call[c].pc = "done"
    /\ srv[c].pc = "none"
    /\ call' = [call EXCEPT ![c] = IdleCall]
    /\ UNCHANGED <<baseUrl, isConnected, connectionAttempted, srv, mockUsers, tempMsgs, issued>>
    /\ UNCHANGED <<storeVars, restVars>>

(***************************************************************************)
(* A handler's response; it goes nowhere when the client has given up.     *)
(***************************************************************************)
Respond(c, status, body) ==
    srv' = [srv EXCEPT ![c] =
              IF call[c].pc = "fetch"
              THEN [body |-> body, local |-> <<>>, pc |-> "done", status |-> status]
              ELSE IdleSrv]

(***************************************************************************)
(* A document-store operation of a handler fails while the backend is      *)
(* unavailable: the handler's catch block answers 500.                     *)
(***************************************************************************)
SrvFault(c) ==
    /\ ~remoteUp
    /\ \/ (srv[c].pc = "none" /\ call[c].pc = "fetch")
       \/ srv[c].pc \notin {"none", "done"}
    /\ Respond(c, 500, <<>>)
    /\ UNCHANGED <<clientVars, restVars>>
    /\ UNCHANGED storeVars

(***************************************************************************)
(* The environment: the backend becomes unavailable (network down, server  *)
(* or database not answering) or available again.                          *)
(***************************************************************************)
BackendUpDown ==
    /\ remoteUp' = ~remoteUp
    /\ UNCHANGED <<clientVars, storeVars, srv, dbVars, uiVars>>

(***************************************************************************)
(* registerUser, client side.                                              *)
(***************************************************************************)
RegisterUser(c, username, email) ==
    Request(c, "registerUser", [email |-> email, username |-> username])

(***************************************************************************)
(* POST /users, server side.                                               *)
(***************************************************************************)
FindUserByEmail(us, email) == {u \in us : u.email = email}

\* the users document createUser inserts, as transformDocument reads it back
UserDoc(email, oid) ==
    [email |-> email, id |-> oid, isAdmin |-> (email = AdminEmail), isBanned |-> FALSE]

\* insertOne into users without the unique email index
InsertUserNoIndex(us, username, doc) ==
    IF Len(username) < MinUsernameLen
    THEN [code |-> 121, users |-> us]
    ELSE [code |-> 0, users |-> us \cup {doc}]

\* insertOne into users: schema validator, then the unique index on email
InsertUser(us, username, doc) ==
    IF Len(username) < MinUsernameLen
    THEN [code |-> 121, users |-> us]
    ELSE IF FindUserByEmail(us, doc.email) # {}
    THEN [code |-> 11000, users |-> us]
    ELSE [code |-> 0, users |-> us \cup {doc}]

\* validation, findUserByEmail, and the answer for an existing user
SrvRegisterUser(c) ==
    /\ call[c].op = "registerUser"
    /\ call[c].pc = "fetch"
    /\ srv[c].pc = "none"
    /\ LET a == call[c].arg
           ex == FindUserByEmail(users, a.email)
       IN  IF a.username = "" \/ a.email = ""
           THEN Respond(c, 400, <<>>)
           ELSE IF ex # {}
           THEN Respond(c, 200, CHOOSE u \in ex : TRUE)
           ELSE srv' = [srv EXCEPT ![c].pc = "create"]
    /\ UNCHANGED <<clientVars, restVars>>
    /\ UNCHANGED storeVars

\* userModel.createUser and the 201 answer, or the catch block
SrvCreateUser(c) ==
    /\ call[c].op = "registerUser"
    /\ srv[c].pc = "create"
    /\ LET a == call[c].arg
           doc == UserDoc(a.email, Oid(nextOid))
           r == InsertUser(users, a.username, doc)
       IN  IF r.code = 0
           THEN /\ users' = r.users
                /\ nextOid' = nextOid + 1
                /\ Respond(c, 201, [email |-> a.email, id |-> doc.id])
           ELSE /\ Respond(c, IF r.code = 121 THEN 400 ELSE 500, <<>>)
                /\ UNCHANGED <<users, nextOid>>
    /\ UNCHANGED <<messages, groups>>
    /\ UNCHANGED <<clientVars, restVars>>

(***************************************************************************)
(* Registration: the state after the page has loaded (BASE_URL read from   *)
(* localStorage) and the backend has started with empty collections.       *)
(***************************************************************************)
Init ==
    /\ baseUrl \in BaseUrls
    /\ isConnected = FALSE
    /\ connectionAttempted = FALSE
    /\ call = [c \in Calls |-> IdleCall]
    /\ srv = [c \in Calls |-> IdleSrv]
    /\ mockUsers = <<>>
    /\ tempMsgs = <<>>
    /\ users = {}
    /\ messages = {}
    /\ groups = {}
    /\ nextOid = 1
    /\ issued = 0
    /\ remoteUp \in BOOLEAN
    /\ connectPc = "connected"
    /\ attempts = 0
    /\ slept = 0
    /\ selected = NoId
    /\ displayed = <<>>

Next ==
    \E c \in Calls :
        \/ \E un \in Usernames, em \in Emails : RegisterUser(c, un, em)
        \/ SrvRegisterUser(c)
        \/ SrvCreateUser(c)
        \/ SrvFault(c)
        \/ FetchReject(c)
        \/ FetchResolve(c)
        \/ ReadText(c)
        \/ \E parsed \in BOOLEAN : ReadJson(c, parsed)
        \/ BackendUpDown

Spec == Init /\ [][Next]_vars

(***************************************************************************)
(* sendMessage, getMessages and deleteUser, client side.                   *)
(***************************************************************************)
SendMessage(c, message) == Request(c, "sendMessage", message)

GetMessages(c, user1Id, user2Id) == Request(c, "getMessages", [u1 |-> user1Id, u2 |-> user2Id])

\* syncData, step 3: the poll loop fetches the open conversation
PollMessages(c, user1Id, user2Id) ==
    PollRequest(c, "getMessages", [u1 |-> user1Id, u2 |-> user2Id])

DeleteUser(c, userId) == Request(c, "deleteUser", [userId |-> userId])

(***************************************************************************)
(* POST /messages, server side.                                            *)
(***************************************************************************)
\* the required fields, the type tag and the payload of the type
ValidMessage(m) ==
    /\ ~(m.senderId = NoId \/ (m.receiverId = NoId /\ m.groupId = NoId)
           \/ m.type = "" \/ m.timestamp = 0)
    /\ m.type \in MsgTypes
    /\ ~(m.type = "text" /\ m.text = "")
    /\ ~(m.type = "image" /\ m.imageUrl = "")
    /\ ~(m.type = "audio" /\ m.audioUrl = "")
    /\ ~(m.type = "file" /\ m.fileUrl = "")

SameTriple(d, senderId, receiverId, timestamp) ==
    d.senderId = senderId /\ d.receiverId = receiverId /\ d.timestamp = timestamp

CheckDuplicateMessage(msgs, senderId, receiverId, timestamp) ==
    \E d \in msgs : SameTriple(d, senderId, receiverId, timestamp)

IsUserBanned(us, userId) == \E u \in us : u.id = userId /\ u.isBanned

\* the document createMessage inserts
MessageDoc(m, oid) ==
    [audioUrl |-> m.audioUrl, fileUrl |-> m.fileUrl, groupId |-> m.groupId, id |-> oid,
     imageUrl |-> m.imageUrl,
     receiverId |-> IF m.groupId # NoId THEN m.groupId ELSE m.receiverId,
     senderId |-> m.senderId,
     status |-> IF m.status = "" THEN "sent" ELSE m.status,
     text |-> m.text, timestamp |-> m.timestamp, type |-> m.type]

\* validation and checkDuplicateMessage
SrvSendMessage(c) ==
    /\ call[c].op = "sendMessage"
    /\ call[c].pc = "fetch"
    /\ srv[c].pc = "none"
    /\ LET m == call[c].arg
       IN  IF ~ValidMessage(m)
           THEN Respond(c, 400, <<>>)
           ELSE IF CheckDuplicateMessage(messages, m.senderId, m.receiverId, m.timestamp)
           THEN Respond(c, 200, [message |-> "Duplicate message detected, skipping creation"])
           ELSE srv' = [srv EXCEPT ![c].pc = "ban"]
    /\ UNCHANGED <<clientVars, restVars>>
    /\ UNCHANGED storeVars

\* isUserBanned(senderId)
SrvSendBanCheck(c) ==
    /\ call[c].op = "sendMessage"
    /\ srv[c].pc = "ban"
    /\ IF IsUserBanned(users, call[c].arg.senderId)
       THEN Respond(c, 403, <<>>)
       ELSE srv' = [srv EXCEPT ![c].pc = "insert"]
    /\ UNCHANGED <<clientVars, restVars>>
    /\ UNCHANGED storeVars

\* createMessage and the 201 answer
SrvCreateMessage(c) ==
    /\ call[c].op = "sendMessage"
    /\ srv[c].pc = "insert"
    /\ LET doc == MessageDoc(call[c].arg, Oid(nextOid))
       IN  /\ messages' = messages \cup {doc}
           /\ nextOid' = nextOid + 1
           /\ Respond(c, 201, doc)
    /\ UNCHANGED <<users, groups>>
    /\ UNCHANGED <<clientVars, restVars>>

(***************************************************************************)
(* GET /messages?u1=&u2=, server side.                                     *)
(***************************************************************************)
\* find($or both directions).sort({timestamp: 1}).limit(500)
GetMessagesBetweenUsers(msgs, user1Id, user2Id) ==
    LET S == {d \in msgs : \/ (d.senderId = user1Id /\ d.receiverId = user2Id)
                           \/ (d.senderId = user2Id /\ d.receiverId = user1Id)}
    IN  Take(SortByTimestamp(S), HistoryLimit)

SrvGetMessages(c) ==
    /\ call[c].op = "getMessages"
    /\ call[c].pc = "fetch"
    /\ srv[c].pc = "none"
    /\ LET a == call[c].arg
       IN  IF a.u1 = NoId \/ a.u2 = NoId
           THEN Respond(c, 400, <<>>)
           ELSE Respond(c, 200, GetMessagesBetweenUsers(messages, a.u1, a.u2))
    /\ UNCHANGED <<clientVars, restVars>>
    /\ UNCHANGED storeVars

(***************************************************************************)
(* DELETE /users/:id, server side: the soft ban.                           *)
(***************************************************************************)
\* updateOne({_id}, {$set: {isBanned: true}}): the documents it modifies, and the collection after it
\* the documents the filter matches, modified or not
BanMatched(us, userId) == {u \in us : u.id = userId}

BanModified(us, userId) == {u \in us : u.id = userId /\ ~u.isBanned}

SetBanned(us, userId) ==
    (us \ BanModified(us, userId)) \cup {[u EXCEPT !.isBanned = TRUE] : u \in BanModified(us, userId)}

SrvDeleteUser(c) ==
    /\ call[c].op = "deleteUser"
    /\ call[c].pc = "fetch"
    /\ srv[c].pc = "none"
    /\ users' = SetBanned(users, call[c].arg.userId)
    /\ IF BanModified(users, call[c].arg.userId) # {}
       THEN Respond(c, 200, [message |-> "User deleted successfully"])
       ELSE Respond(c, 404, <<>>)
    /\ UNCHANGED <<messages, groups, nextOid>>
    /\ UNCHANGED <<clientVars, restVars>>

(***************************************************************************)
(* Messaging: the page has loaded and the backend holds the two registered *)
(* users and no message yet.                                               *)
(***************************************************************************)
InitMsg ==
    /\ baseUrl \in BaseUrls
    /\ isConnected = FALSE
    /\ connectionAttempted = FALSE
    /\ call = [c \in Calls |-> IdleCall]
    /\ srv = [c \in Calls |-> IdleSrv]
    /\ mockUsers = <<>>
    /\ tempMsgs = <<>>
    /\ users = {UserDoc("ana@x.com", U1), UserDoc("bob@x.com", U2)}
    /\ messages = {}
    /\ groups = {}
    /\ nextOid = 3
    /\ issued = 0
    /\ remoteUp \in BOOLEAN
    /\ connectPc = "connected"
    /\ attempts = 0
    /\ slept = 0
    /\ selected = NoId
    /\ displayed = <<>>

NextMsg ==
    \E c \in Calls :
        \/ \E m \in TextInputs : SendMessage(c, m)
        \/ GetMessages(c, U1, U2)
        \/ SrvSendMessage(c)
        \/ SrvSendBanCheck(c)
        \/ SrvCreateMessage(c)
        \/ SrvGetMessages(c)
        \/ SrvFault(c)
        \/ FetchReject(c)
        \/ FetchResolve(c)
        \/ ReadText(c)
        \/ \E parsed \in BOOLEAN : ReadJson(c, parsed)
        \/ BackendUpDown

SpecMsg == InitMsg /\ [][NextMsg]_vars

(***************************************************************************)
(* Messaging with the poll loop running: user U1 has the conversation with *)
(* U2 open, and every 2 s a tick fetches it again.                         *)
(***************************************************************************)
NextSync ==
    \E c \in Calls :
        \/ \E m \in TextInputs : SendMessage(c, m)
        \/ PollMessages(c, U1, U2)
        \/ SrvSendMessage(c)
        \/ SrvSendBanCheck(c)
        \/ SrvCreateMessage(c)
        \/ SrvGetMessages(c)
        \/ SrvFault(c)
        \/ FetchReject(c)
        \/ FetchResolve(c)
        \/ ReadText(c)
        \/ \E parsed \in BOOLEAN : ReadJson(c, parsed)
        \/ Reset(c)
        \/ BackendUpDown

SpecSync == InitMsg /\ [][NextSync]_vars

(***************************************************************************)
(* PUT /messages/:id, sent by any HTTP client: the status is validated and *)
(* written by one findOneAndUpdate; the answer (400, 404 or 200) changes   *)
(* no state.                                                               *)
(***************************************************************************)
UpdateMessageStatus(msgs, messageId, status) ==
    {IF d.id = messageId THEN [d EXCEPT !.status = status] ELSE d : d \in msgs}

SrvUpdateMessageStatus(messageId, status) ==
    /\ messages' = IF status \in {"sent", "delivered", "read"}
                   THEN UpdateMessageStatus(messages, messageId, status)
                   ELSE messages
    /\ UNCHANGED <<users, groups, nextOid, srv>>
    /\ UNCHANGED <<clientVars, restVars>>

(***************************************************************************)
(* Sending, with users being soft-banned meanwhile.                        *)
(***************************************************************************)
NextSend ==
    \E c \in Calls :
        \/ \E m \in SendInputs : SendMessage(c, m)
        \/ \E u \in UserIds : DeleteUser(c, u)
        \/ SrvSendMessage(c)
        \/ SrvSendBanCheck(c)
        \/ SrvCreateMessage(c)
        \/ SrvDeleteUser(c)
        \/ \E n \in 3..nextOid, status \in {"", "sent", "delivered", "read"} :
              SrvUpdateMessageStatus(Oid(n), status)
        \/ SrvFault(c)
        \/ FetchReject(c)
        \/ FetchResolve(c)
        \/ ReadText(c)
        \/ \E parsed \in BOOLEAN : ReadJson(c, parsed)
        \/ BackendUpDown

SpecSend == InitMsg /\ [][NextSend]_vars

(***************************************************************************)
(* The operations without a local fallback, client side.                   *)
(***************************************************************************)
BanUser(c, userId, adminId) == Request(c, "banUser", [adminId |-> adminId, userId |-> userId])

CleanupTestData(c, adminId) == Request(c, "cleanupTestData", [adminId |-> adminId])

EditMessage(c, messageId, newText, userId) ==
    Request(c, "editMessage", [messageId |-> messageId, text |-> newText, userId |-> userId])

DeleteMessage(c, messageId, userId) ==
    Request(c, "deleteMessage", [messageId |-> messageId, userId |-> userId])

CreateGroup(c, name, adminId, memberIds) ==
    Request(c, "createGroup", [adminId |-> adminId, memberIds |-> memberIds, name |-> name])

AddMemberToGroup(c, groupId, userId, adminId) ==
    Request(c, "addMemberToGroup", [adminId |-> adminId, groupId |-> groupId, userId |-> userId])

RemoveMemberFromGroup(c, groupId, userId, adminId) ==
    Request(c, "removeMemberFromGroup",
            [adminId |-> adminId, groupId |-> groupId, userId |-> userId])

DeleteGroup(c, groupId, userId) ==
    Request(c, "deleteGroup", [groupId |-> groupId, userId |-> userId])

GetUserGroups(c, userId) == Request(c, "getUserGroups", [userId |-> userId])

GetAllGroupsForAdmin(c, adminId) == Request(c, "getAllGroupsForAdmin", [adminId |-> adminId])

GetGroupMessages(c, groupId) == Request(c, "getGroupMessages", [groupId |-> groupId])

(***************************************************************************)
(* POST /users/:id/ban and POST /users/cleanup, server side.               *)
(***************************************************************************)
Arrived(c, op) == call[c].op = op /\ call[c].pc = "fetch" /\ srv[c].pc = "none"

At(c, op, pc) == call[c].op = op /\ srv[c].pc = pc

Goto(c, pc) == srv' = [srv EXCEPT ![c].pc = pc]

FindUserById(us, userId) == {u \in us : u.id = userId}

\* admin?.isAdmin of the handlers
IsAdmin(us, adminId) == \E u \in FindUserById(us, adminId) : u.isAdmin

\* findUserById(adminId) and the 403
SrvBanUser(c) ==
    /\ Arrived(c, "banUser")
    /\ IF ~IsAdmin(users, call[c].arg.adminId)
       THEN Respond(c, 403, <<>>)
       ELSE Goto(c, "banSet")
    /\ UNCHANGED <<clientVars, restVars>>
    /\ UNCHANGED storeVars

\* userModel.banUser(id) and the 404
SrvBanUserSet(c) ==
    /\ At(c, "banUser", "banSet")
    /\ users' = SetBanned(users, call[c].arg.userId)
    /\ IF BanModified(users, call[c].arg.userId) = {}
       THEN Respond(c, 404, <<>>)
       ELSE Goto(c, "banMessages")
    /\ UNCHANGED <<messages, groups, nextOid>>
    /\ UNCHANGED <<clientVars, restVars>>

DeleteAllMessagesFromUser(msgs, userId) ==
    {d \in msgs : ~(d.senderId = userId \/ d.receiverId = userId)}

SrvBanUserMessages(c) ==
    /\ At(c, "banUser", "banMessages")
    /\ messages' = DeleteAllMessagesFromUser(messages, call[c].arg.userId)
    /\ Goto(c, "banGroups")
    /\ UNCHANGED <<users, groups, nextOid>>
    /\ UNCHANGED <<clientVars, restVars>>

\* a removal that drops the first element, whoever it is
PullHead(seq, x) == Tail(seq)

\* $pull: every occurrence of x leaves the array
Pull(seq, x) == SelectSeq(seq, LAMBDA y : y # x)

RemoveUserFromAllGroups(gs, userId) ==
    {[g EXCEPT !.memberIds = Pull(g.memberIds, userId)] : g \in gs}

SrvBanUserGroups(c) ==
    /\ At(c, "banUser", "banGroups")
    /\ groups' = RemoveUserFromAllGroups(groups, call[c].arg.userId)
    /\ Respond(c, 200, [message |-> "User banned and all data removed successfully"])
    /\ UNCHANGED <<users, messages, nextOid>>
    /\ UNCHANGED <<clientVars, restVars>>

SrvCleanupTestData(c) ==
    /\ Arrived(c, "cleanupTestData")
    /\ IF ~IsAdmin(users, call[c].arg.adminId)
       THEN Respond(c, 403, <<>>)
       ELSE Goto(c, "cleanUsers")
    /\ UNCHANGED <<clientVars, restVars>>
    /\ UNCHANGED storeVars

DeleteAllUsersExceptAdmin(us) == {u \in us : u.email = AdminEmail}

SrvCleanupUsers(c) ==
    /\ At(c, "cleanupTestData", "cleanUsers")
    /\ users' = DeleteAllUsersExceptAdmin(users)
    /\ srv' = [srv EXCEPT ![c].pc = "cleanMessages",
                          ![c].local = <<Cardinality(users \ users')>>]
    /\ UNCHANGED <<messages, groups, nextOid>>
    /\ UNCHANGED <<clientVars, restVars>>

SrvCleanupMessages(c) ==
    /\ At(c, "cleanupTestData", "cleanMessages")
    /\ messages' = {}
    /\ srv' = [srv EXCEPT ![c].pc = "cleanGroups",
                          ![c].local = Append(srv[c].local, Cardinality(messages))]
    /\ UNCHANGED <<users, groups, nextOid>>
    /\ UNCHANGED <<clientVars, restVars>>

SrvCleanupGroups(c) ==
    /\ At(c, "cleanupTestData", "cleanGroups")
    /\ groups' = {}
    /\ Respond(c, 200, [groupsDeleted |-> Cardinality(groups),
                        messagesDeleted |-> srv[c].local[2],
                        usersDeleted |-> srv[c].local[1]])
    /\ UNCHANGED <<users, messages, nextOid>>
    /\ UNCHANGED <<clientVars, restVars>>

(***************************************************************************)
(* PATCH /messages/:id and DELETE /messages/:id, server side.              *)
(***************************************************************************)
\* findOneAndUpdate({_id}, {$set: {text}}): the collection after it
UpdateMessageText(msgs, messageId, newText) ==
    {IF d.id = messageId THEN [d EXCEPT !.text = newText] ELSE d : d \in msgs}

\* the text is written first; the sender is compared afterwards
SrvEditMessage(c) ==
    /\ Arrived(c, "editMessage")
    /\ LET a == call[c].arg
           hit == {d \in messages : d.id = a.messageId}
       IN  IF a.text = "" \/ a.userId = NoId
           THEN /\ Respond(c, 400, <<>>)
                /\ UNCHANGED messages
           ELSE /\ messages' = UpdateMessageText(messages, a.messageId, a.text)
                /\ IF hit = {}
                   THEN Respond(c, 404, <<>>)
                   ELSE IF \E d \in hit : d.senderId # a.userId
                   THEN Respond(c, 403, <<>>)
                   ELSE Respond(c, 200, CHOOSE d \in messages' : d.id = a.messageId)
    /\ UNCHANGED <<users, groups, nextOid>>
    /\ UNCHANGED <<clientVars, restVars>>

SrvDeleteMessage(c) ==
    /\ Arrived(c, "deleteMessage")
    /\ LET a == call[c].arg
           hit == {d \in messages : d.id = a.messageId}
       IN  IF a.userId = NoId
           THEN /\ Respond(c, 400, <<>>)
                /\ UNCHANGED messages
           ELSE /\ messages' = messages \ hit
                /\ IF hit = {}
                   THEN Respond(c, 404, <<>>)
                   ELSE Respond(c, 200, [message |-> "Message deleted successfully"])
    /\ UNCHANGED <<users, groups, nextOid>>
    /\ UNCHANGED <<clientVars, restVars>>

(***************************************************************************)
(* GET /messages?groupId=, server side.                                    *)
(***************************************************************************)
\* find({groupId}).sort({timestamp: 1}).limit(500)
GetGroupMessagesOf(msgs, groupId) ==
    Take(SortByTimestamp({d \in msgs : d.groupId = groupId}), HistoryLimit)

SrvGetGroupMessages(c) ==
    /\ Arrived(c, "getGroupMessages")
    /\ IF call[c].arg.groupId # NoId
       THEN Respond(c, 200, GetGroupMessagesOf(messages, call[c].arg.groupId))
       ELSE Respond(c, 400, <<>>)
    /\ UNCHANGED <<clientVars, restVars>>
    /\ UNCHANGED storeVars

(***************************************************************************)
(* The group routes, server side.                                          *)
(***************************************************************************)
\* find(...).toArray(): the documents in insertion (_id) order
RECURSIVE SortById(_)
SortById(S) ==
    IF S = {} THEN <<>>
    ELSE LET first == CHOOSE d \in S : \A e \in S : d.id[2] <= e.id[2]
         IN  <<first>> \o SortById(S \ {first})

GetGroup(gs, groupId) == {g \in gs : g.id = groupId}

GetGroupsForUser(gs, userId) == SortById({g \in gs : userId \in Range(g.memberIds)})

\* POST /groups
SrvCreateGroup(c) ==
    /\ Arrived(c, "createGroup")
    /\ LET a == call[c].arg
           doc == [adminId |-> a.adminId, id |-> Oid(nextOid), memberIds |-> a.memberIds,
                   name |-> a.name]
       IN  IF a.name = "" \/ a.adminId = NoId \/ Len(a.memberIds) < MinMembers
           THEN /\ Respond(c, 400, <<>>)
                /\ UNCHANGED <<groups, nextOid>>
           ELSE /\ groups' = groups \cup {doc}
                /\ nextOid' = nextOid + 1
                /\ Respond(c, 201, doc)
    /\ UNCHANGED <<users, messages>>
    /\ UNCHANGED <<clientVars, restVars>>

\* GET /groups?userId=
SrvGetUserGroups(c) ==
    /\ Arrived(c, "getUserGroups")
    /\ IF call[c].arg.userId = NoId
       THEN Respond(c, 400, <<>>)
       ELSE Respond(c, 200, GetGroupsForUser(groups, call[c].arg.userId))
    /\ UNCHANGED <<clientVars, restVars>>
    /\ UNCHANGED storeVars

\* GET /groups/all?adminId=: findUserById and the 403
SrvGetAllGroups(c) ==
    /\ Arrived(c, "getAllGroupsForAdmin")
    /\ IF ~IsAdmin(users, call[c].arg.adminId)
       THEN Respond(c, 403, <<>>)
       ELSE Goto(c, "allGroups")
    /\ UNCHANGED <<clientVars, restVars>>
    /\ UNCHANGED storeVars

SrvGetAllGroupsList(c) ==
    /\ At(c, "getAllGroupsForAdmin", "allGroups")
    /\ Respond(c, 200, SortById(groups))
    /\ UNCHANGED <<clientVars, restVars>>
    /\ UNCHANGED storeVars

\* $addToSet
AddToSet(seq, x) == IF x \in Range(seq) THEN seq ELSE Append(seq, x)

\* POST /groups/:groupId/members: getGroup and the checks on what it returned
SrvAddMember(c) ==
    /\ Arrived(c, "addMemberToGroup")
    /\ LET a == call[c].arg
           group == GetGroup(groups, a.groupId)
       IN  IF a.userId = NoId \/ a.adminId = NoId
           THEN Respond(c, 400, <<>>)
           ELSE IF group = {}
           THEN Respond(c, 404, <<>>)
           ELSE IF \E g \in group : g.adminId # a.adminId
           THEN Respond(c, 403, <<>>)
           ELSE Goto(c, "addMember")
    /\ UNCHANGED <<clientVars, restVars>>
    /\ UNCHANGED storeVars

\* groupModel.addMemberToGroup: modifiedCount === 1
SrvAddMemberUpdate(c) ==
    /\ At(c, "addMemberToGroup", "addMember")
    /\ LET a == call[c].arg
           modified == {g \in GetGroup(groups, a.groupId) : a.userId \notin Range(g.memberIds)}
       IN  /\ groups' = (groups \ modified)
                          \cup {[g EXCEPT !.memberIds = AddToSet(g.memberIds, a.userId)] :
                                  g \in modified}
           /\ IF modified = {}
              THEN Respond(c, 400, <<>>)
              ELSE Respond(c, 200, [message |-> "Member added successfully"])
    /\ UNCHANGED <<users, messages, nextOid>>
    /\ UNCHANGED <<clientVars, restVars>>

\* DELETE /groups/:groupId/members: getGroup and the checks on what it returned
SrvRemoveMember(c) ==
    /\ Arrived(c, "removeMemberFromGroup")
    /\ LET a == call[c].arg
           group == GetGroup(groups, a.groupId)
       IN  IF a.userId = NoId \/ a.adminId = NoId
           THEN Respond(c, 400, <<>>)
           ELSE IF group = {}
           THEN Respond(c, 404, <<>>)
           ELSE IF \E g \in group : g.adminId # a.adminId
           THEN Respond(c, 403, <<>>)
           ELSE IF \E g \in group : g.adminId = a.userId
           THEN Respond(c, 400, <<>>)
           ELSE Goto(c, "removeMember")
    /\ UNCHANGED <<clientVars, restVars>>
    /\ UNCHANGED storeVars

\* groupModel.removeMemberFromGroup: modifiedCount === 1
SrvRemoveMemberUpdate(c) ==
    /\ At(c, "removeMemberFromGroup", "removeMember")
    /\ LET a == call[c].arg
           modified == {g \in GetGroup(groups, a.groupId) : a.userId \in Range(g.memberIds)}
       IN  /\ groups' = (groups \ modified)
                          \cup {[g EXCEPT !.memberIds = Pull(g.memberIds, a.userId)] :
                                  g \in modified}
           /\ IF modified = {}
              THEN Respond(c, 400, <<>>)
              ELSE Respond(c, 200, [message |-> "Member removed successfully"])
    /\ UNCHANGED <<users, messages, nextOid>>
    /\ UNCHANGED <<clientVars, restVars>>

\* DELETE /groups/:id: getGroup; the group it returned stays in the handler
SrvDeleteGroup(c) ==
    /\ Arrived(c, "deleteGroup")
    /\ LET a == call[c].arg
           group == GetGroup(groups, a.groupId)
       IN  IF a.userId = NoId
           THEN Respond(c, 400, <<>>)
           ELSE IF group = {}
           THEN Respond(c, 404, <<>>)
           ELSE srv' = [srv EXCEPT ![c].pc = "superAdmin",
                                   ![c].local = (CHOOSE g \in group : TRUE).adminId]
    /\ UNCHANGED <<clientVars, restVars>>
    /\ UNCHANGED storeVars

\* findUserByEmail('admin0909@gmail.com'); its result is not used
SrvDeleteGroupSuperAdmin(c) ==
    /\ At(c, "deleteGroup", "superAdmin")
    /\ Goto(c, "requester")
    /\ UNCHANGED <<clientVars, restVars>>
    /\ UNCHANGED storeVars

\* findUserById(userId) and the 403
SrvDeleteGroupRequester(c) ==
    /\ At(c, "deleteGroup", "requester")
    /\ LET a == call[c].arg
           isGroupAdmin == srv[c].local = a.userId
           isSuperAdmin == \E u \in FindUserById(users, a.userId) :
                               u.isAdmin \/ u.email = AdminEmail
       IN  IF ~isGroupAdmin /\ ~isSuperAdmin
           THEN Respond(c, 403, <<>>)
           ELSE Goto(c, "deleteGroup")
    /\ UNCHANGED <<clientVars, restVars>>
    /\ UNCHANGED storeVars

SrvDeleteGroupDelete(c) ==
    /\ At(c, "deleteGroup", "deleteGroup")
    /\ groups' = groups \ GetGroup(groups, call[c].arg.groupId)
    /\ Goto(c, "groupMessages")
    /\ UNCHANGED <<users, messages, nextOid>>
    /\ UNCHANGED <<clientVars, restVars>>

DeleteAllMessagesInGroup(msgs, groupId) == {d \in msgs : d.groupId # groupId}

SrvDeleteGroupMessages(c) ==
    /\ At(c, "deleteGroup", "groupMessages")
    /\ messages' = DeleteAllMessagesInGroup(messages, call[c].arg.groupId)
    /\ Respond(c, 200, [message |-> "Group and all messages deleted"])
    /\ UNCHANGED <<users, groups, nextOid>>
    /\ UNCHANGED <<clientVars, restVars>>

(***************************************************************************)
(* Administration and groups: the backend holds the administrator U1, the  *)
(* users U2 and U3, a direct message M1 from U2 to U3, the group G1 of U1  *)
(* and U2 administered by U2, and a message M2 of U2 in that group.        *)
(***************************************************************************)
InitOps ==
    /\ baseUrl \in BaseUrls
    /\ isConnected = FALSE
    /\ connectionAttempted = FALSE
    /\ call = [c \in Calls |-> IdleCall]
    /\ srv = [c \in Calls |-> IdleSrv]
    /\ mockUsers = <<>>
    /\ tempMsgs = <<>>
    /\ users = {UserDoc(AdminEmail, U1), UserDoc("bob@x.com", U2), UserDoc("ana@x.com", U3)}
    /\ messages = {MessageDoc(Msg(U2, U3, 1, "hi"), M1),
                   MessageDoc([Msg(U2, NoId, 1, "hi") EXCEPT !.groupId = G1], M2)}
    /\ groups = {[adminId |-> U2, id |-> G1, memberIds |-> <<U1, U2>>, name |-> "team"]}
    /\ nextOid = 7
    /\ issued = 0
    /\ remoteUp \in BOOLEAN
    /\ connectPc = "connected"
    /\ attempts = 0
    /\ slept = 0
    /\ selected = NoId
    /\ displayed = <<>>

NextOps ==
    \E c \in Calls :
        \/ \E userId \in {U2, U3}, adminId \in {U1, U2} : BanUser(c, userId, adminId)
        \/ DeleteUser(c, U3)
        \/ \E adminId \in {U1, U2} : CleanupTestData(c, adminId)
        \/ \E userId \in {U2, U3} : EditMessage(c, M1, "yo", userId)
        \/ DeleteMessage(c, M1, U2)
        \/ \E memberIds \in {<<U1>>, <<U1, U3>>} : CreateGroup(c, "duo", U1, memberIds)
        \/ \E userId \in {U1, U3}, adminId \in {U1, U2} : AddMemberToGroup(c, G1, userId, adminId)
        \/ \E userId \in {U1, U2} : RemoveMemberFromGroup(c, G1, userId, U2)
        \/ \E userId \in {U1, U2, U3} : DeleteGroup(c, G1, userId)
        \/ GetUserGroups(c, U1)
        \/ \E adminId \in {U1, U2} : GetAllGroupsForAdmin(c, adminId)
        \/ GetGroupMessages(c, G1)
        \/ SrvBanUser(c) \/ SrvBanUserSet(c) \/ SrvBanUserMessages(c) \/ SrvBanUserGroups(c)
        \/ SrvDeleteUser(c)
        \/ SrvCleanupTestData(c) \/ SrvCleanupUsers(c) \/ SrvCleanupMessages(c)
        \/ SrvCleanupGroups(c)
        \/ SrvEditMessage(c)
        \/ SrvDeleteMessage(c)
        \/ SrvCreateGroup(c)
        \/ SrvAddMember(c) \/ SrvAddMemberUpdate(c)
        \/ SrvRemoveMember(c) \/ SrvRemoveMemberUpdate(c)
        \/ SrvDeleteGroup(c) \/ SrvDeleteGroupSuperAdmin(c) \/ SrvDeleteGroupRequester(c)
        \/ SrvDeleteGroupDelete(c) \/ SrvDeleteGroupMessages(c)
        \/ SrvGetUserGroups(c)
        \/ SrvGetAllGroups(c) \/ SrvGetAllGroupsList(c)
        \/ SrvGetGroupMessages(c)
        \/ SrvFault(c)
        \/ FetchReject(c)
        \/ FetchResolve(c)
        \/ ReadText(c)
        \/ \E parsed \in BOOLEAN : ReadJson(c, parsed)
        \/ BackendUpDown

SpecOps == InitOps /\ [][NextOps]_vars

RegDone(c) == call[c].op = "registerUser" /\ call[c].pc = "done"
RegLocal(c) == RegDone(c) /\ call[c].resp.kind = "null"
RegRemote(c) == RegDone(c) /\ call[c].resp.kind = "body"

\* C1: every completed registerUser call returned (never threw) a User with a
\* non-empty id; when the remote call failed, that user is in connect_mock_users.
C1_RegisterAlwaysUser ==
    \A c \in Calls :
        RegDone(c) =>
            /\ call[c].ret.kind = "body"
            /\ call[c].ret.val.id # NoId
            /\ call[c].ret.val.email = call[c].arg.email
            /\ (call[c].resp.kind # "body" => call[c].ret.val \in Range(mockUsers))

C1_Witness ==
    \E c1, c2 \in Calls :
        /\ RegLocal(c1) /\ call[c1].status = 500
        /\ RegRemote(c2)

\* C2 (as claimed): any two completed registerUser calls with the same email
\* returned the same id, whichever store answered each of them.
C2_SameIdAnyStore ==
    \A c1, c2 \in Calls :
        (RegDone(c1) /\ RegDone(c2) /\ call[c1].arg.email = call[c2].arg.email
           /\ call[c1].ret.kind = "body" /\ call[c2].ret.kind = "body")
        => call[c1].ret.val.id = call[c2].ret.val.id

\* C2 (amended): two completed registerUser calls with the same email that were
\* answered by the same store (both remotely, or both by the local fallback)
\* returned the same id.
C2_SameIdSameStore ==
    \A c1, c2 \in Calls :
        (RegDone(c1) /\ RegDone(c2) /\ call[c1].arg.email = call[c2].arg.email
           /\ call[c1].resp.kind = call[c2].resp.kind
           /\ call[c1].ret.kind = "body" /\ call[c2].ret.kind = "body")
        => call[c1].ret.val.id = call[c2].ret.val.id

C2_Witness ==
    \E c1, c2 \in Calls :
        /\ c1 # c2
        /\ RegRemote(c1) /\ RegRemote(c2)
        /\ call[c1].arg.email = call[c2].arg.email
        /\ call[c1].status = 201 /\ call[c2].status = 200

\* C3: two registerUser calls with the same email that both fell back to the
\* local store returned the same id, and connect_mock_users holds exactly one
\* record with that email.
C3_LocalRegisterIdempotent ==
    \A c1, c2 \in Calls :
        (RegLocal(c1) /\ RegLocal(c2) /\ call[c1].arg.email = call[c2].arg.email)
        => /\ call[c1].ret.kind = "body" /\ call[c2].ret.kind = "body"
           /\ call[c1].ret.val.id = call[c2].ret.val.id
           /\ Cardinality({i \in DOMAIN mockUsers :
                             mockUsers[i].email = call[c1].arg.email}) = 1

C3_Witness ==
    \E c1, c2 \in Calls :
        /\ c1 # c2
        /\ baseUrl # "LOCAL_MOCK"
        /\ RegLocal(c1) /\ RegLocal(c2)
        /\ call[c1].arg.email = call[c2].arg.email
        /\ \E i \in DOMAIN mockUsers : mockUsers[i].email = call[c1].arg.email

SendDone(c) == call[c].op = "sendMessage" /\ call[c].pc = "done"
SendAnswered(c) == SendDone(c) /\ call[c].status # 0
SendLocal(c) == SendDone(c) /\ call[c].resp.kind = "null"
GetLocal(c) == call[c].op = "getMessages" /\ call[c].pc = "done" /\ call[c].resp.kind = "null"

Stored(m) == {d \in messages : SameTriple(d, m.senderId, m.receiverId, m.timestamp)}

\* C4: after two create-message requests with the same (senderId, receiverId,
\* timestamp) have both been answered by the handler's insert-or-skip path, the
\* message store holds exactly one message with that triple, and the two
\* requests were not both answered 201.
C4_OneMessagePerTriple ==
    \A c1, c2 \in Calls :
        (/\ c1 # c2
         /\ SendAnswered(c1) /\ SendAnswered(c2)
         /\ call[c1].status \in {200, 201} /\ call[c2].status \in {200, 201}
         /\ SameTriple(call[c1].arg, call[c2].arg.senderId, call[c2].arg.receiverId,
                       call[c2].arg.timestamp))
        => /\ Cardinality(Stored(call[c1].arg)) = 1
           /\ ~(call[c1].status = 201 /\ call[c2].status = 201)

\* C6: a sendMessage call that the remote API answered returned true exactly
\* when the answer was 2xx, and a message rejected with 4xx was not written to
\* connect_temp_msgs by that call.
C6_SendResultPerHttpOutcome ==
    \A c \in Calls :
        SendAnswered(c) =>
            /\ (call[c].ret = TrueRet) <=> IsOk(call[c].status)
            /\ call[c].ret \in {TrueRet, FalseRet}
            /\ (call[c].status >= 400 /\ call[c].status <= 499)
                 => call[c].arg \notin Range(tempMsgs)

\* the step at which call c returns, having been served by the local store
ReturnsLocal(c, op) ==
    /\ call[c].pc # "done"
    /\ call'[c].pc = "done"
    /\ call'[c].op = op
    /\ call'[c].resp.kind = "null"

InConversation(m, user1Id, user2Id) ==
    \/ (m.senderId = user1Id /\ m.receiverId = user2Id)
    \/ (m.senderId = user2Id /\ m.receiverId = user1Id)

\* C7: a sendMessage call served by the local store returns true and appends
\* its message to connect_temp_msgs; nothing is ever removed from that list;
\* and a getMessages(u1, u2) call served by the local store returns every
\* message of the list that belongs to the conversation of u1 and u2, in list
\* order.  So a message sent while unreachable is in the result of any later
\* getMessages call of its conversation that is also served locally.
C7_LocalSendThenList ==
    [][\A c \in Calls :
         /\ ReturnsLocal(c, "sendMessage") =>
               /\ call'[c].ret = TrueRet
               /\ tempMsgs' = Append(tempMsgs, call'[c].arg)
         /\ ReturnsLocal(c, "getMessages") =>
               /\ call'[c].ret.kind = "body"
               /\ \A i \in DOMAIN tempMsgs :
                     InConversation(tempMsgs[i], call'[c].arg.u1, call'[c].arg.u2)
                       => tempMsgs[i] \in Range(call'[c].ret.val)
               /\ \A m \in Range(call'[c].ret.val) : m \in Range(tempMsgs)
         /\ Len(tempMsgs') >= Len(tempMsgs)
         /\ SubSeq(tempMsgs', 1, Len(tempMsgs)) = tempMsgs]_vars

C7_Witness ==
    \E c1, c2 \in Calls :
        /\ baseUrl # "LOCAL_MOCK"
        /\ SendLocal(c1) /\ call[c1].ret = TrueRet /\ call[c1].status = 0
        /\ GetLocal(c2) /\ call[c2].status = 0
        /\ call[c2].arg.u1 = call[c1].arg.senderId
        /\ call[c2].arg.u2 = call[c1].arg.receiverId
        /\ call[c1].arg \in Range(call[c2].ret.val)

(***************************************************************************)
(* The poll loop with the scheduling the runtime guarantees: a handler     *)
(* that can take its next step takes it, a settled fetch is delivered, a   *)
(* finished call leaves its slot, and the timer keeps ticking.  Nothing    *)
(* obliges the user to send, the backend to fail, or the network to drop.  *)
(***************************************************************************)
FairSync ==
    \A c \in Calls :
        /\ WF_vars(PollMessages(c, U1, U2))
        /\ WF_vars(SrvSendMessage(c))
        /\ WF_vars(SrvSendBanCheck(c))
        /\ WF_vars(SrvCreateMessage(c))
        /\ WF_vars(SrvGetMessages(c))
        /\ WF_vars(FetchResolve(c))
        /\ WF_vars(ReadText(c))
        /\ WF_vars(\E parsed \in BOOLEAN : ReadJson(c, parsed))
        /\ WF_vars(Reset(c))

FairSpecSync == SpecSync /\ FairSync

\* C8: a message that sendMessage wrote to connect_temp_msgs because the
\* remote was unreachable is, once the backend is available and for as long as
\* it stays available, eventually present in the remote message store.
C8_OfflineMessagesSynced ==
    \A m \in TextInputs :
        (baseUrl = "http" /\ m \in Range(tempMsgs) /\ remoteUp)
            ~> (Stored(m) # {} \/ ~remoteUp)

\* the remote call of call c failed: no response (network error, timeout), or a non-2xx response
RemoteFailed(c) ==
    /\ call[c].pc = "done"
    /\ baseUrl # "LOCAL_MOCK"
    /\ (call[c].status = 0 \/ ~IsOk(call[c].status))

\* no response reached call c
Unreachable(c) ==
    /\ call[c].pc = "done"
    /\ baseUrl # "LOCAL_MOCK"
    /\ call[c].status = 0
    /\ call[c].resp.kind = "null"

\* C5: when its remote call failed, an operation without a local fallback
\* reports failure: banUser, deleteUser, addMemberToGroup, removeMemberFromGroup,
\* deleteGroup, editMessage and deleteMessage return false, createGroup and
\* cleanupTestData return null.
C5_NoFallbackOpsReportFailure ==
    \A c \in Calls :
        RemoteFailed(c) =>
            /\ call[c].op \in BoolOps => call[c].ret = FalseRet
            /\ call[c].op \in NullOps => call[c].ret = NullRet

\* C9: when the remote is unreachable, getUserGroups, getAllGroupsForAdmin and
\* getGroupMessages return an empty array, never null.
C9_GroupListsNeverNull ==
    \A c \in Calls :
        (Unreachable(c) /\ call[c].op \in ListOps \cup {"getAllGroupsForAdmin"})
            => call[c].ret = EmptyRet

\* C10: request never throws.  At the step at which a call returns, what
\* request handed to the operation is the null sentinel or a body: the null
\* sentinel in mock mode, after a rejected fetch and after a non-2xx response;
\* after a 2xx response the parsed body when the body parses, the null
\* sentinel when it does not.
C10_RequestNeverThrows ==
    [][\A c \in Calls :
         (call[c].pc # "done" /\ call'[c].pc = "done") =>
             /\ call'[c].resp.kind \in {"null", "body"}
             /\ call[c].pc \in {"idle", "fetch", "text"} => call'[c].resp = NullResp
             /\ call[c].pc = "json" => call'[c].resp \in {NullResp, BodyResp(call[c].body)}
             /\ ReadJson(c, TRUE) => call'[c].resp = BodyResp(call[c].body)
             /\ ReadJson(c, FALSE) => call'[c].resp = NullResp
             /\ call'[c].resp.kind = "body" => IsOk(call'[c].status)]_vars

C10_Witness ==
    \E c1, c2 \in Calls :
        /\ call[c1].pc = "done" /\ call[c1].resp.kind = "body" /\ call[c1].status = 201
        /\ call[c2].pc = "done" /\ call[c2].resp = NullResp /\ IsOk(call[c2].status)

\* the step at which call c, having reached the network, returns
ReturnsFromNetwork(c) ==
    /\ call[c].pc \in {"fetch", "text", "json"}
    /\ call'[c].pc = "done"

\* C11: when a call that reached the network returns, the connectivity flag
\* is the outcome of that call: true if and only if the call got a 2xx
\* response whose body parsed.  So the flag always tells the outcome of the
\* most recently completed call.
C11_FlagIsLastOutcome ==
    [][\A c \in Calls :
         ReturnsFromNetwork(c) => (isConnected' = (call'[c].resp.kind = "body"))]_vars

(***************************************************************************)
(* Messaging with the scheduling the runtime and a responsive backend      *)
(* guarantee.  The abort timer is armed before the fetch and cleared as    *)
(* soon as the fetch has resolved: a fetch that is pending while the       *)
(* backend does not answer is rejected by the timer, and a delivered       *)
(* response resolves it.  While the backend is available its handlers take *)
(* their steps and the body of a response arrives; while it is not, no     *)
(* timer watches the reading of a body.                                    *)
(***************************************************************************)
SrvStepMsg(c) ==
    SrvSendMessage(c) \/ SrvSendBanCheck(c) \/ SrvCreateMessage(c) \/ SrvGetMessages(c)

FairTimeout ==
    \A c \in Calls :
        /\ SF_vars(FetchReject(c))
        /\ WF_vars(FetchResolve(c))
        /\ WF_vars(remoteUp /\ SrvStepMsg(c))
        /\ SF_vars(remoteUp /\ ReadText(c))
        /\ SF_vars(remoteUp /\ \E parsed \in BOOLEAN : ReadJson(c, parsed))

FairSpecMsg == SpecMsg /\ FairTimeout

Pending(c) == call[c].pc \in {"fetch", "text", "json"}

\* C12: every call that has been issued returns, in whichever phase it is
\* (waiting for the response headers, reading the error text, reading the
\* JSON body), also when the remote stops answering.
C12_EveryCallReturns ==
    \A c \in Calls : Pending(c) ~> (call[c].pc = "done")

\* a poll tick is in flight while its open-conversation fetch is awaited
TickInFlight(c) == call[c].op = "getMessages" /\ Pending(c)

\* C13: poll ticks never overlap: at most one tick of the poll loop is in
\* flight at any time.
C13_TicksNeverOverlap ==
    Cardinality({c \in Calls : TickInFlight(c)}) <= 1

(***************************************************************************)
(* Listing a conversation: messages carrying different client timestamps   *)
(* are sent, each send settles whenever its own fetch settles, and the     *)
(* conversation is listed from either side.                                *)
(***************************************************************************)
ListInputs == {Msg(U1, U2, t, "hi") : t \in 1..MaxListTs}

\* the timestamps of the messages handed to sendMessage so far
SentTimestamps ==
    {call[c].arg.timestamp : c \in {k \in Calls : call[k].op = "sendMessage"}}
      \cup {tempMsgs[i].timestamp : i \in DOMAIN tempMsgs}
      \cup {d.timestamp : d \in messages}

\* handleSendMessage stamps the message with Date.now(), which never goes
\* back, and hands it to sendMessage without waiting for earlier sends
HandleSendMessage(c, m) ==
    /\ \A t \in SentTimestamps : t <= m.timestamp
    /\ SendMessage(c, m)

NextList ==
    \E c \in Calls :
        \/ \E m \in ListInputs : HandleSendMessage(c, m)
        \/ \E a, b \in UserIds : a # b /\ PollMessages(c, a, b)
        \/ SrvSendMessage(c)
        \/ SrvSendBanCheck(c)
        \/ SrvCreateMessage(c)
        \/ SrvGetMessages(c)
        \/ SrvFault(c)
        \/ FetchReject(c)
        \/ FetchResolve(c)
        \/ ReadText(c)
        \/ \E parsed \in BOOLEAN : ReadJson(c, parsed)
        \/ Reset(c)
        \/ BackendUpDown

SpecList == InitMsg /\ [][NextList]_vars

Listed(c) == call[c].op = "getMessages" /\ call[c].pc = "done" /\ call[c].ret.kind = "body"

\* C14: every list returned by getMessages(a, b), from the remote store or
\* from the local fallback store, holds only messages of the conversation of
\* a and b and is sorted ascending by timestamp.
C14_ListSortedByTimestamp ==
    \A c \in Calls :
        Listed(c) =>
            LET l == call[c].ret.val
            IN  /\ \A i \in DOMAIN l : InConversation(l[i], call[c].arg.u1, call[c].arg.u2)
                /\ \A i, j \in DOMAIN l : i < j => l[i].timestamp <= l[j].timestamp

(***************************************************************************)
(* A long conversation written while the backend is never reached: one     *)
(* user sends message after message, waiting for each answer, and lists    *)
(* the conversation.                                                       *)
(***************************************************************************)
SendNext(c) ==
    /\ \A k \in Calls : call[k].pc = "idle"
    /\ Len(tempMsgs) < MaxLocal
    /\ PollRequest(c, "sendMessage", Msg(U1, U2, Len(tempMsgs) + 1, "hi"))

NextHistory ==
    \E c \in Calls :
        \/ SendNext(c)
        \/ (\A k \in Calls : call[k].pc = "idle") /\ PollMessages(c, U1, U2)
        \/ FetchReject(c)
        \/ Reset(c)
        \/ BackendUpDown

SpecHistory == InitMsg /\ [][NextHistory]_vars

\* C15: a list returned by getMessages has at most 500 elements, whether it
\* comes from the remote store or from the local fallback store.
C15_AtMostHistoryLimit ==
    \A c \in Calls : Listed(c) => Len(call[c].ret.val) <= HistoryLimit

\* C16: every stored message has exactly the payload field of its type tag:
\* the field named by the tag is non-empty and the other three of text,
\* imageUrl, audioUrl and fileUrl are absent.
C16_PayloadMatchesType ==
    \A d \in messages :
        /\ (d.text # "") = (d.type = "text")
        /\ (d.imageUrl # "") = (d.type = "image")
        /\ (d.audioUrl # "") = (d.type = "audio")
        /\ (d.fileUrl # "") = (d.type = "file")

\* C17: when PATCH /messages/:id is answered 403 because userId is not the
\* sender of the message, the stored messages, and so the text of that
\* message, are the same after the request as before it.
C17_RefusedEditChangesNothing ==
    [][\A c \in Calls :
         (/\ Arrived(c, "editMessage")
          /\ srv'[c].pc = "done"
          /\ srv'[c].status = 403)
           => messages' = messages]_vars

\* C18: the status of a stored message never moves back in the order
\* sent < delivered < read.
C18_StatusNeverMovesBack ==
    [][\A d \in messages, e \in messages' :
         d.id = e.id =>
            /\ (d.status = "read" => e.status = "read")
            /\ (d.status = "delivered" => e.status \in {"delivered", "read"})]_vars

\* C19: in every state of the group store the adminId of each group is one
\* of its memberIds.
C19_AdminIsMember ==
    \A g \in groups : g.adminId \in Range(g.memberIds)

(***************************************************************************)
(* Removing members from a group of three: G1 has the members U1, U2, U3   *)
(* and the admin U2.  Removals are asked for the admin and for U3, by the  *)
(* admin and by U1, and may run concurrently.                              *)
(***************************************************************************)
InitGroup ==
    /\ baseUrl \in BaseUrls
    /\ isConnected = FALSE
    /\ connectionAttempted = FALSE
    /\ call = [c \in Calls |-> IdleCall]
    /\ srv = [c \in Calls |-> IdleSrv]
    /\ mockUsers = <<>>
    /\ tempMsgs = <<>>
    /\ users = {UserDoc(AdminEmail, U1), UserDoc("bob@x.com", U2), UserDoc("ana@x.com", U3)}
    /\ messages = {}
    /\ groups = {[adminId |-> U2, id |-> G1, memberIds |-> <<U1, U2, U3>>, name |-> "team"]}
    /\ nextOid = 7
    /\ issued = 0
    /\ remoteUp \in BOOLEAN
    /\ connectPc = "connected"
    /\ attempts = 0
    /\ slept = 0
    /\ selected = NoId
    /\ displayed = <<>>

NextGroup ==
    \E c \in Calls :
        \/ \E userId \in {U2, U3}, adminId \in {U1, U2} :
              RemoveMemberFromGroup(c, G1, userId, adminId)
        \/ SrvRemoveMember(c)
        \/ SrvRemoveMemberUpdate(c)
        \/ SrvFault(c)
        \/ FetchReject(c)
        \/ FetchResolve(c)
        \/ ReadText(c)
        \/ \E parsed \in BOOLEAN : ReadJson(c, parsed)
        \/ BackendUpDown

SpecGroup == InitGroup /\ [][NextGroup]_vars

\* C20: a removeMember request that names the group's admin is refused and
\* changes no group; a removal answered 200 takes exactly the named member
\* out of the named group and changes nothing else; a removal that passed
\* the checks is answered 400 only when nothing was there to remove.  So in
\* the group [U1, U2, U3] with admin U2 the admin's removal of U2 fails with
\* the members unchanged and the admin's removal of U3 leaves [U1, U2].
C20_RemoveMemberExact ==
    [][\A c \in Calls :
         LET a == call[c].arg
             named == {g \in groups : g.id = a.groupId}
         IN  /\ (/\ Arrived(c, "removeMemberFromGroup")
                 /\ srv'[c] # srv[c]
                 /\ \E g \in named : g.adminId = a.userId)
                  => /\ srv'[c].pc = "done"
                     /\ srv'[c].status >= 400
                     /\ groups' = groups
             /\ (/\ At(c, "removeMemberFromGroup", "removeMember")
                 /\ srv'[c].pc = "done"
                 /\ srv'[c].status = 200)
                  => /\ \E g \in named : a.userId \in Range(g.memberIds)
                     /\ groups' =
                          {IF g \in named
                           THEN [g EXCEPT !.memberIds = SelectSeq(g.memberIds,
                                                                  LAMBDA y : y # a.userId)]
                           ELSE g : g \in groups}
             /\ (/\ At(c, "removeMemberFromGroup", "removeMember")
                 /\ srv'[c].pc = "done"
                 /\ srv'[c].status = 400)
                  => /\ groups' = groups
                     /\ \A g \in named : a.userId \notin Range(g.memberIds)]_vars

C20_Witness ==
    \E c1, c2 \in Calls :
        /\ call[c1].op = "removeMemberFromGroup" /\ call[c2].op = "removeMemberFromGroup"
        /\ call[c1].arg = [adminId |-> U2, groupId |-> G1, userId |-> U2]
        /\ call[c1].pc = "done" /\ call[c1].status = 400
        /\ call[c2].arg = [adminId |-> U2, groupId |-> G1, userId |-> U3]
        /\ call[c2].pc = "done" /\ call[c2].status = 200
        /\ \E g \in groups : g.id = G1 /\ g.memberIds = <<U1, U2>>

(***************************************************************************)
(* An admin ban while messages are being sent: the super admin U1 bans U3, *)
(* U2 writes to U3 and U3 writes to U2.                                    *)
(***************************************************************************)
NextBan ==
    \E c \in Calls :
        \/ BanUser(c, U3, U1)
        \/ \E m \in {Msg(U2, U3, 1, "hi"), Msg(U3, U2, 1, "hi")} : SendMessage(c, m)
        \/ SrvBanUser(c) \/ SrvBanUserSet(c) \/ SrvBanUserMessages(c) \/ SrvBanUserGroups(c)
        \/ SrvSendMessage(c)
        \/ SrvSendBanCheck(c)
        \/ SrvCreateMessage(c)
        \/ SrvFault(c)
        \/ FetchReject(c)
        \/ FetchResolve(c)
        \/ ReadText(c)
        \/ \E parsed \in BOOLEAN : ReadJson(c, parsed)
        \/ BackendUpDown

SpecBan == InitOps /\ [][NextBan]_vars

\* C21: once banUser(admin, target) has been answered 200, the non-admin
\* user list does not hold target and the store holds no message sent by or
\* to target, so every conversation of target is listed empty.
C21_BannedUserHasNoMessages ==
    \A c \in Calls :
        (call[c].op = "banUser" /\ call[c].pc = "done" /\ call[c].status = 200) =>
            LET target == call[c].arg.userId
            IN  /\ \A u \in users : u.id = target => u.isBanned
                /\ \A d \in messages : d.senderId # target /\ d.receiverId # target

(***************************************************************************)
(* Messages of the group G1, posted with receiverId = groupId as the app   *)
(* does and with no receiverId as the route also accepts, while the group  *)
(* is being deleted by its admin U2 or by U3, who is neither its admin nor *)
(* a super admin.                                                          *)
(***************************************************************************)
GroupInputs == {[Msg(U1, r, 1, "hi") EXCEPT !.groupId = G1] : r \in {G1, NoId}}

NextGroupMsg ==
    \E c \in Calls :
        \/ \E m \in GroupInputs : SendMessage(c, m)
        \/ \E userId \in {U2, U3} : DeleteGroup(c, G1, userId)
        \/ SrvSendMessage(c)
        \/ SrvSendBanCheck(c)
        \/ SrvCreateMessage(c)
        \/ SrvDeleteGroup(c) \/ SrvDeleteGroupSuperAdmin(c) \/ SrvDeleteGroupRequester(c)
        \/ SrvDeleteGroupDelete(c) \/ SrvDeleteGroupMessages(c)
        \/ SrvFault(c)
        \/ FetchReject(c)
        \/ FetchResolve(c)
        \/ ReadText(c)
        \/ \E parsed \in BOOLEAN : ReadJson(c, parsed)
        \/ BackendUpDown

SpecGroupMsg == InitOps /\ [][NextGroupMsg]_vars

\* C22: once a DELETE /groups/:id has been answered 200, the store holds
\* neither the group nor a message whose groupId is that group's id.
C22_DeletedGroupLeavesNothing ==
    \A c \in Calls :
        (call[c].op = "deleteGroup" /\ call[c].pc = "done" /\ call[c].status = 200) =>
            /\ GetGroup(groups, call[c].arg.groupId) = {}
            /\ \A d \in messages : d.groupId # call[c].arg.groupId

\* C30: a POST /messages for a group whose (senderId, groupId, timestamp) is
\* already stored is answered by the duplicate check and inserts nothing,
\* whatever receiverId the request body carries.
C30_GroupDuplicateSkipped ==
    [][\A c \in Calls :
         LET m == call[c].arg
         IN  (/\ Arrived(c, "sendMessage")
              /\ srv'[c] # srv[c]
              /\ ValidMessage(m)
              /\ m.groupId # NoId
              /\ \E d \in messages : /\ d.senderId = m.senderId
                                     /\ d.groupId = m.groupId
                                     /\ d.timestamp = m.timestamp)
               => srv'[c].pc = "done"]_vars

\* C24: no two messages of connect_temp_msgs share the natural key
\* (senderId, receiverId, timestamp).
C24_LocalKeysUnique ==
    \A i, j \in DOMAIN tempMsgs :
        i # j => ~SameTriple(tempMsgs[i], tempMsgs[j].senderId, tempMsgs[j].receiverId,
                             tempMsgs[j].timestamp)

\* C29: the local list holds every message for which sendMessage returned
\* true from the local fallback, each as often as it was sent that way, and
\* nothing else, however the calls overlapped.
C29_NoLocalSendLost ==
    \A m \in TextInputs :
        Cardinality({i \in DOMAIN tempMsgs : tempMsgs[i] = m})
          = Cardinality({c \in Calls : SendLocal(c) /\ call[c].ret = TrueRet /\ call[c].arg = m})

C29_Witness ==
    \E c1, c2 \in Calls :
        /\ c1 # c2
        /\ baseUrl # "LOCAL_MOCK"
        /\ SendLocal(c1) /\ call[c1].status = 500
        /\ SendLocal(c2) /\ call[c2].status = 0
        /\ tempMsgs = <<call[c2].arg, call[c1].arg>>

(***************************************************************************)
(* A conversation that has reached the history limit: the store holds      *)
(* HistoryLimit messages from U1 to U2 with the timestamps 1..HistoryLimit *)
(* (as many POST /messages leave it); U1 sends one more, stamped later     *)
(* than all of them, and the conversation is listed.                       *)
(***************************************************************************)
InitFull ==
    /\ baseUrl = "http"
    /\ isConnected = FALSE
    /\ connectionAttempted = FALSE
    /\ call = [c \in Calls |-> IdleCall]
    /\ srv = [c \in Calls |-> IdleSrv]
    /\ mockUsers = <<>>
    /\ tempMsgs = <<>>
    /\ users = {UserDoc("ana@x.com", U1), UserDoc("bob@x.com", U2)}
    /\ messages = {MessageDoc(Msg(U1, U2, t, "hi"), Oid(t + 2)) : t \in 1..HistoryLimit}
    /\ groups = {}
    /\ nextOid = HistoryLimit + 3
    /\ issued = 0
    /\ remoteUp \in BOOLEAN
    /\ connectPc = "connected"
    /\ attempts = 0
    /\ slept = 0
    /\ selected = NoId
    /\ displayed = <<>>

NextFull ==
    \E c \in Calls :
        \/ SendMessage(c, Msg(U1, U2, HistoryLimit + 1, "hi"))
        \/ GetMessages(c, U1, U2)
        \/ SrvSendMessage(c)
        \/ SrvSendBanCheck(c)
        \/ SrvCreateMessage(c)
        \/ SrvGetMessages(c)
        \/ FetchReject(c)
        \/ FetchResolve(c)
        \/ \E parsed \in BOOLEAN : ReadJson(c, parsed)
        \/ BackendUpDown

SpecFull == InitFull /\ [][NextFull]_vars

\* C23: the history that GET /messages answers holds the most recent of the
\* qualifying messages: no stored message of the conversation that is left
\* out is newer than one that is returned.
C23_MostRecentReturned ==
    [][\A c \in Calls :
         (Arrived(c, "getMessages") /\ srv'[c].pc = "done" /\ srv'[c].status = 200)
           => \A d \in messages :
                 (InConversation(d, call[c].arg.u1, call[c].arg.u2)
                  /\ d \notin Range(srv'[c].body))
                   => \A i \in DOMAIN srv'[c].body : srv'[c].body[i].timestamp >= d.timestamp]_vars

\* C28: when an admin's POST /users/:id/ban reaches userModel.banUser for
\* a user whose isBanned flag is already true, the request is answered 404
\* (500 when the store fails) and users, messages and groups stay as they
\* are: the cascade is not run, also not when an earlier ban set the flag
\* and failed before its cascade.
C28_RepeatedBanDoesNothing ==
    [][\A c \in Calls :
         (/\ At(c, "banUser", "banSet")
          /\ srv'[c] # srv[c]
          /\ IsUserBanned(users, call[c].arg.userId))
           => /\ srv'[c].pc \in {"done", "none"}
              /\ srv'[c].pc = "done" => srv'[c].status \in {404, 500}
              /\ (srv'[c].pc = "done" /\ remoteUp) => srv'[c].status = 404
              /\ UNCHANGED <<users, messages, groups>>]_vars

C28_Witness ==
    \E c1, c2 \in Calls :
        /\ call[c1].op = "banUser" /\ call[c1].pc = "done" /\ call[c1].status = 500
        /\ call[c2].op = "banUser" /\ call[c2].pc = "done" /\ call[c2].status = 404
        /\ IsUserBanned(users, U3)
        /\ \E d \in messages : d.receiverId = U3

(***************************************************************************)
(* Server start: DatabaseConnection.connect with its retry loop.  An       *)
(* attempt is client.connect() followed by a ping; it succeeds while the   *)
(* database is available and throws while it is not.  The routes answer    *)
(* only once connect has returned; meanwhile a client may already be       *)
(* asking for a conversation.                                              *)
(***************************************************************************)
\* connect() is called: attempts = 0, the loop is entered
DbConnect ==
    /\ connectPc = "idle"
    /\ connectPc' = "connect"
    /\ attempts' = 0
    /\ UNCHANGED <<slept, clientVars, storeVars, srv, envVars, uiVars>>

\* await client.connect() and await db.command({ping: 1}) succeed; return db
DbAttemptOk ==
    /\ remoteUp
    /\ connectPc \in {"connect", "ping"}
    /\ connectPc' = IF connectPc = "connect" THEN "ping" ELSE "connected"
    /\ UNCHANGED <<attempts, slept, clientVars, storeVars, srv, envVars, uiVars>>

\* a catch that goes to sleep whatever the count
DbAttemptFailAlwaysSleep ==
    /\ ~remoteUp
    /\ connectPc \in {"connect", "ping"}
    /\ attempts' = attempts + 1
    /\ connectPc' = "sleep"
    /\ UNCHANGED <<slept, clientVars, storeVars, srv, envVars, uiVars>>

\* the catch block: count the failure, throw at maxRetries, else go to sleep
DbAttemptFail ==
    /\ ~remoteUp
    /\ connectPc \in {"connect", "ping"}
    /\ attempts' = attempts + 1
    /\ connectPc' = IF attempts' >= MaxRetries THEN "failed" ELSE "sleep"
    /\ UNCHANGED <<slept, clientVars, storeVars, srv, envVars, uiVars>>

\* await this.sleep(retryDelay) is over; the while condition is tested
DbSleep ==
    /\ connectPc = "sleep"
    /\ slept' = slept + RetryDelay
    /\ connectPc' = IF attempts < MaxRetries THEN "connect" ELSE "failed"
    /\ UNCHANGED <<attempts, clientVars, storeVars, srv, envVars, uiVars>>

InitStartup ==
    /\ baseUrl = "http"
    /\ isConnected = FALSE
    /\ connectionAttempted = FALSE
    /\ call = [c \in Calls |-> IdleCall]
    /\ srv = [c \in Calls |-> IdleSrv]
    /\ mockUsers = <<>>
    /\ tempMsgs = <<>>
    /\ users = {UserDoc("ana@x.com", U1), UserDoc("bob@x.com", U2)}
    /\ messages = {}
    /\ groups = {}
    /\ nextOid = 3
    /\ issued = 0
    /\ remoteUp \in BOOLEAN
    /\ connectPc = "idle"
    /\ attempts = 0
    /\ slept = 0
    /\ selected = NoId
    /\ displayed = <<>>

NextStartup ==
    \/ DbConnect
    \/ DbAttemptOk
    \/ DbAttemptFail
    \/ DbSleep
    \/ BackendUpDown
    \/ \E c \in Calls :
        \/ GetMessages(c, U1, U2)
        \/ connectPc = "connected" /\ SrvGetMessages(c)
        \/ FetchReject(c)
        \/ FetchResolve(c)
        \/ \E parsed \in BOOLEAN : ReadJson(c, parsed)

SpecStartup == InitStartup /\ [][NextStartup]_vars

\* connect() is called once the server starts, every attempt settles and
\* every sleep ends
FairStartup ==
    /\ WF_vars(DbConnect)
    /\ WF_vars(DbAttemptOk \/ DbAttemptFail)
    /\ WF_vars(DbSleep)

FairSpecStartup == SpecStartup /\ FairStartup

\* C25: connect() makes at most MaxRetries attempts, has slept the retry
\* delay exactly once after each failed attempt but the last possible one,
\* makes no attempt and sleeps no more once it has returned or thrown, throws
\* only after MaxRetries failures, and always returns or throws.
C25_ConnectRetriesBounded ==
    /\ [](/\ attempts <= MaxRetries
          /\ connectPc \in {"connect", "ping", "connected"} =>
                attempts < MaxRetries /\ slept = attempts * RetryDelay
          /\ connectPc = "sleep" =>
                attempts < MaxRetries /\ slept = (attempts - 1) * RetryDelay
          /\ connectPc = "failed" =>
                attempts = MaxRetries /\ slept = (MaxRetries - 1) * RetryDelay)
    /\ [][(connectPc \in {"connected", "failed"}) => UNCHANGED dbVars]_vars
    /\ <>(connectPc \in {"connected", "failed"})

C25_Witness ==
    /\ connectPc = "failed"
    /\ attempts = MaxRetries
    /\ slept = (MaxRetries - 1) * RetryDelay

(***************************************************************************)
(* The chat window of App: user U1 opens the conversation with U2 or U3,   *)
(* goes back to the main view, sends messages, and the poll loop fetches   *)
(* the conversation that was open when the tick started.  `selected` is    *)
(* selectedUser (NoId for null), `displayed` is the messages state.        *)
(***************************************************************************)
Partners == {U2, U3}

\* a fetched history waits to be handed to setMessages; the continuation of
\* an await runs before any event handler or timer
ApplyPending(c) == call[c].op = "getMessages" /\ call[c].pc = "done"

Settled == \A c \in Calls : ~ApplyPending(c)

\* onSelectChat: the messages state is left as it is
OnSelectChat(user) ==
    /\ Settled
    /\ selected = NoId
    /\ selected' = user
    /\ UNCHANGED <<displayed, clientVars, storeVars, srv, envVars, dbVars>>

\* onBack of ChatWindow
OnBack ==
    /\ Settled
    /\ selected # NoId
    /\ selected' = NoId
    /\ UNCHANGED <<displayed, clientVars, storeVars, srv, envVars, dbVars>>

\* the Message built by handleSendMessage; Date.now() gives a later
\* timestamp to each send.  The id the client gives it is left out, as in
\* Msg: the server mints its own, so only a fetched message carries an id
NewMessage == Msg(U1, selected, 2 + issued, "hi")

\* handleSendMessage: the optimistic append, then sendMessage
AppSendMessage(c) ==
    /\ Settled
    /\ selected # NoId
    /\ issued < MaxIssued
    /\ issued' = issued + 1
    /\ displayed' = Append(displayed, NewMessage)
    /\ StartCall(c, "sendMessage", NewMessage)
    /\ UNCHANGED selected

\* handleSendMessage after its await: nothing but a console.error
AppSendReturn(c) ==
    /\ call[c].op = "sendMessage"
    /\ Reset(c)

\* a tick of syncData with a chat open: getMessages for the selectedUser the
\* callback closed over; a run of the model follows at most MaxIssued sends
\* and ticks
SyncData(c) ==
    /\ Settled
    /\ selected # NoId
    /\ GetMessages(c, U1, selected)

\* syncData after await getMessages: setMessages(chatHistory), whatever chat
\* is open by now; a rejected getMessages ends the tick without it
SetMessages(c) ==
    /\ ApplyPending(c)
    /\ srv[c].pc = "none"
    /\ displayed' = IF call[c].ret.kind = "body" THEN call[c].ret.val ELSE displayed
    /\ call' = [call EXCEPT ![c] = IdleCall]
    /\ UNCHANGED <<selected, baseUrl, isConnected, connectionAttempted, srv, mockUsers,
                   tempMsgs, issued, storeVars, envVars, dbVars>>

InitApp ==
    /\ baseUrl \in BaseUrls
    /\ isConnected = FALSE
    /\ connectionAttempted = FALSE
    /\ call = [c \in Calls |-> IdleCall]
    /\ srv = [c \in Calls |-> IdleSrv]
    /\ mockUsers = <<>>
    /\ tempMsgs = <<>>
    /\ users = {UserDoc("ana@x.com", U1), UserDoc("bob@x.com", U2), UserDoc("cy@x.com", U3)}
    /\ messages = {MessageDoc(Msg(U2, U1, 1, "hi"), M1)}
    /\ groups = {}
    /\ nextOid = 7
    /\ issued = 0
    /\ remoteUp \in BOOLEAN
    /\ connectPc = "connected"
    /\ attempts = 0
    /\ slept = 0
    /\ selected = NoId
    /\ displayed = <<>>

NextApp ==
    \/ \E user \in Partners : OnSelectChat(user)
    \/ OnBack
    \/ BackendUpDown
    \/ \E c \in Calls :
        \/ AppSendMessage(c)
        \/ AppSendReturn(c)
        \/ SyncData(c)
        \/ SetMessages(c)
        \/ SrvSendMessage(c)
        \/ SrvSendBanCheck(c)
        \/ SrvCreateMessage(c)
        \/ SrvGetMessages(c)
        \/ SrvFault(c)
        \/ FetchReject(c)
        \/ FetchResolve(c)
        \/ ReadText(c)
        \/ \E parsed \in BOOLEAN : ReadJson(c, parsed)

SpecApp == InitApp /\ [][NextApp]_vars

\* C26: once the user has left conversation X, for another conversation or
\* for the main view, no poll tick started while X was open writes the
\* history it fetched into the displayed messages.
C26_StaleTickWritesNothing ==
    [][\A c \in Calls :
          (ApplyPending(c) /\ call'[c].pc = "idle" /\ call[c].arg.u2 # selected)
              => displayed' = displayed]_vars

\* the key of a message: sender, receiver and client timestamp
Shows(list, m) ==
    \E j \in DOMAIN list : SameTriple(list[j], m.senderId, m.receiverId, m.timestamp)

\* C27: a message that handleSendMessage appended to the displayed list is
\* still displayed after every poll refresh of the conversation it is in.
C27_OptimisticMessageStays ==
    [][\A c \in Calls :
          (ApplyPending(c) /\ call'[c].pc = "idle" /\ call[c].arg.u2 = selected)
              => \A i \in DOMAIN displayed :
                     ("id" \notin DOMAIN displayed[i]) => Shows(displayed', displayed[i])]_vars

====
